---- MODULE Spec2Model ----
(***************************************************************************)
(* Model of sign.ts: the command-line tool that zips a SketchUp extension, *)
(* logs into the Extension Warehouse with a puppeteer-driven browser,      *)
(* uploads the archive and downloads the signed version.                   *)
(*                                                                         *)
(* One process (the async function main) runs getCredentials, zip and sign *)
(* in that order; every "await" is a step of the model.  The archiver      *)
(* writes the archive asynchronously, and the portal, the file system and  *)
(* the operator are the environment: each of their answers is a choice.    *)
(*                                                                         *)
(* Strings that the program takes apart (paths) are sequences of tokens;   *)
(* the separator "/" and the dot "." are tokens of their own, so the       *)
(* functions of Node's path module are computed on them as Node computes   *)
(* them on characters (POSIX flavour).                                     *)
(***************************************************************************)
EXTENDS Integers, Sequences, FiniteSets, TLC

----------------------------------------------------------------------------
(* Node's path module, as used at sign.ts:149 and sign.ts:233.             *)

Sep == "/"
Dot == "."

RECURSIVE StripTrailingSep(_)
\* a path without its trailing separators (the root keeps its one)
StripTrailingSep(p) ==
    IF Len(p) > 1 /\ p[Len(p)] = Sep
    THEN StripTrailingSep(SubSeq(p, 1, Len(p) - 1))
    ELSE p

\* the index of the last occurrence of token t in p, 0 when there is none
LastIndexOf(p, t) ==
    LET hits == {i \in DOMAIN p : p[i] = t}
    IN  IF hits = {} THEN 0 ELSE CHOOSE i \in hits : \A j \in hits : j <= i

\* whether sequence s ends with sequence suffix
EndsWith(s, suffix) ==
    /\ Len(suffix) <= Len(s)
    /\ SubSeq(s, Len(s) - Len(suffix) + 1, Len(s)) = suffix

\* path.dirname(p)
dirname(p) ==
    LET q == StripTrailingSep(p)
        i == LastIndexOf(q, Sep)
    IN  IF Len(q) = 0 THEN <<Dot>>
        ELSE IF i = 0 THEN <<Dot>>
        ELSE IF i = 1 THEN <<Sep>>
        ELSE SubSeq(q, 1, i - 1)

\* path.basename(p): the last portion of the path
basename(p) ==
    LET q == StripTrailingSep(p)
        i == LastIndexOf(q, Sep)
    IN  IF q = <<Sep>> THEN << >> ELSE SubSeq(q, i + 1, Len(q))

\* path.basename(p, ext): the last portion without the suffix ext, which is
\* removed only when something is left of the portion
basenameExt(p, ext) ==
    LET b == basename(p)
    IN  IF p = ext THEN << >>
        ELSE IF Len(ext) > 0 /\ EndsWith(b, ext) /\ b # ext
        THEN SubSeq(b, 1, Len(b) - Len(ext))
        ELSE b

\* path.parse(p).name: the last portion without its extension, the extension
\* starting at the last dot that is not the portion's first character
parseName(p) ==
    LET b == basename(p)
        i == LastIndexOf(b, Dot)
    IN  IF i <= 1 \/ b = <<Dot, Dot>> THEN b ELSE SubSeq(b, 1, i - 1)

RECURSIVE Segments(_)
\* the portions of a path between its separators
Segments(p) ==
    LET hits == {i \in DOMAIN p : p[i] = Sep}
    IN  IF hits = {} THEN <<p>>
        ELSE LET i == CHOOSE k \in hits : \A j \in hits : k <= j
             IN  <<SubSeq(p, 1, i - 1)>> \o Segments(SubSeq(p, i + 1, Len(p)))

RECURSIVE NormalizeSegments(_, _, _)
\* normalizeString: drops empty and "." portions, resolves ".." portions
NormalizeSegments(segs, acc, absolute) ==
    IF segs = << >> THEN acc
    ELSE LET s == Head(segs)
             rest == Tail(segs)
         IN  IF s = << >> \/ s = <<Dot>>
             THEN NormalizeSegments(rest, acc, absolute)
             ELSE IF s = <<Dot, Dot>>
             THEN IF acc # << >> /\ acc[Len(acc)] # <<Dot, Dot>>
                  THEN NormalizeSegments(rest, SubSeq(acc, 1, Len(acc) - 1), absolute)
                  ELSE IF absolute
                  THEN NormalizeSegments(rest, acc, absolute)
                  ELSE NormalizeSegments(rest, Append(acc, s), absolute)
             ELSE NormalizeSegments(rest, Append(acc, s), absolute)

RECURSIVE JoinSegments(_)
\* the portions put together again, one separator between two of them
JoinSegments(segs) ==
    IF segs = << >> THEN << >>
    ELSE IF Len(segs) = 1 THEN segs[1]
    ELSE segs[1] \o <<Sep>> \o JoinSegments(Tail(segs))

\* path.normalize(p)
normalize(p) ==
    IF Len(p) = 0 THEN <<Dot>>
    ELSE LET absolute == p[1] = Sep
             trailing == p[Len(p)] = Sep
             body == JoinSegments(NormalizeSegments(Segments(p), << >>, absolute))
             tailed == IF body = << >>
                       THEN IF absolute THEN << >> ELSE <<Dot>>
                       ELSE IF trailing THEN body \o <<Sep>> ELSE body
         IN  IF absolute THEN <<Sep>> \o tailed ELSE tailed

\* path.join(a, b): the non-empty arguments, a separator between them,
\* normalized
join(a, b) ==
    LET joined == IF Len(a) = 0 THEN b
                  ELSE IF Len(b) = 0 THEN a
                  ELSE a \o <<Sep>> \o b
    IN  normalize(joined)

----------------------------------------------------------------------------
(* The inputs of a run.                                                    *)

\* the suffixes of the archive and of the signed extension (sign.ts:149, 233)
NotSignedRbz == <<"_not_signed", Dot, "rbz">>
SignedRbz == <<"_signed", Dot, "rbz">>

\* the values --output is given in the model; "defined" is FALSE when the
\* option is absent (argv.output is undefined)
OutputPaths ==
    { <<"w", Dot, "rbz">>,
      <<"out", Sep, "w", Dot, "rbz">>,
      <<"out", Sep, "w", "_signed", Dot, "rbz">>,
      <<"w">>,
      <<"out", Sep, "sub", Sep, "w", "_not_signed", Dot, "rbz">> }

Outputs ==
    {[defined |-> FALSE, str |-> << >>]}
        \cup {[defined |-> TRUE, str |-> o] : o \in OutputPaths}

\* the values of --username and --password ("" is the option's default)
FlagUsernames == {"", "flagUser"}
FlagPasswords == {"", "flagPass"}

\* process.env.EW_USERNAME and EW_PASSWORD once dotenv's config() has run
\* ("" stands for a variable that is not set)
EnvUsernames == {"", "envUser"}
EnvPasswords == {"", "envPass"}

\* what the operator types at a prompt
PromptUsernames == {"promptUser"}
PromptPasswords == {"promptPass"}

\* the href of the download link the portal shows
Urls == {<<"https://portal/signed/1">>, <<"https://portal/signed/2">>}

\* every value that is a credential of some run
Secrets ==
    (FlagUsernames \cup FlagPasswords \cup EnvUsernames \cup EnvPasswords
        \cup PromptUsernames \cup PromptPasswords) \ {""}

----------------------------------------------------------------------------
(* The steps of sign(), one per awaited call, in program order.  "enters"  *)
(* is the state of the submission run that begins when the step has        *)
(* completed ("" when the step completes inside a state).                  *)

Step(op, target, enters) == [op |-> op, target |-> target, enters |-> enters]

\* Script as it would be with the two modal confirmations in the wrong order
ScriptModalsSwapped ==
    << Step("launch", "browser", ""),
       Step("newPage", "page", ""),
       Step("goto", "https://extensions.sketchup.com/extension/sign", "Authenticating"),
       Step("search", "sign in button", ""),
       Step("click", "sign in button", ""),
       Step("search", "e-mail input", ""),
       Step("type", "e-mail input", ""),
       Step("pageClick", "input[id=next]", ""),
       Step("search", "password input", ""),
       Step("type", "password input", ""),
       Step("pageClick", "input[id=submit]", ""),
       Step("search", "sign button", ""),
       Step("click", "sign button", "Initiating"),
       Step("delay", "10000", ""),
       Step("search", "browse button", ""),
       Step("chooser", "browse button", ""),
       Step("accept", "file chooser", "Uploading"),
       Step("search", "next button 2", ""),
       Step("click", "next button 2", ""),
       Step("search", "next button 1", ""),
       Step("click", "next button 1", "AwaitingProcessing"),
       Step("search", "download link", ""),
       Step("evaluate", "download link", "Downloading"),
       Step("download", "download link", "Complete"),
       Step("close", "browser", "") >>

Script ==
    << Step("launch", "browser", ""),
       Step("newPage", "page", ""),
       Step("goto", "https://extensions.sketchup.com/extension/sign", "Authenticating"),
       Step("search", "sign in button", ""),
       Step("click", "sign in button", ""),
       Step("search", "e-mail input", ""),
       Step("type", "e-mail input", ""),
       Step("pageClick", "input[id=next]", ""),
       Step("search", "password input", ""),
       Step("type", "password input", ""),
       Step("pageClick", "input[id=submit]", ""),
       Step("search", "sign button", ""),
       Step("click", "sign button", "Initiating"),
       Step("delay", "10000", ""),
       Step("search", "browse button", ""),
       Step("chooser", "browse button", ""),
       Step("accept", "file chooser", "Uploading"),
       Step("search", "next button 1", ""),
       Step("click", "next button 1", ""),
       Step("search", "next button 2", ""),
       Step("click", "next button 2", "AwaitingProcessing"),
       Step("search", "download link", ""),
       Step("evaluate", "download link", "Downloading"),
       Step("download", "download link", "Complete"),
       Step("close", "browser", "") >>

\* the awaited calls that reject when the page does not answer as expected
ThrowingOps ==
    {"newPage", "goto", "click", "type", "pageClick", "chooser", "accept", "evaluate"}

----------------------------------------------------------------------------
VARIABLES
    argv,         \* the parsed command line
    dotenv,       \* what dotenv's config() finds: error, EW_USERNAME, EW_PASSWORD
    pc,           \* where main() is
    ip,           \* inside sign(): the index in Script of the step to do next
    waiting,      \* inside search(): page.waitFor is pending
    username,     \* getCredentials' local, then sign's parameter
    password,     \* getCredentials' local, then sign's parameter
    prompts,      \* how many times each prompt was shown
    rbzPath,      \* zip's result
    archive,      \* the archive file: "none", "writing", "closed"
    browser,      \* the browser session: "none", "open", "closed"
    closes,       \* how many times browser.close() was called
    pageTimeout,  \* the page's default timeout: "default" or "configured"
    downloadUrl,  \* sign's local downloadUrl
    outputPath,   \* sign's local outputPath
    fetched,      \* the download: "none", "ok", "failed"
    written,      \* the file the download wrote
    log,          \* the console lines, in order
    steps,        \* the interactions with the browser that completed, in order
    state,        \* the state of the submission run
    visited,      \* the states the run has been in, in order
    exitCode,     \* the process's exit code, once pc = "exited"
    exitBy,       \* what ended the process
    chooser,      \* the file chooser: what was called and what happened, in order
    fetchUrl      \* the url download() was called with

vars ==
    << argv, dotenv, pc, ip, waiting, username, password, prompts, rbzPath,
       archive, browser, closes, pageTimeout, downloadUrl, outputPath, fetched,
       written, log, steps, state, visited, exitCode, exitBy, chooser,
       fetchUrl >>

\* a console line
Line(stream, text, arg) == [stream |-> stream, text |-> text, arg |-> arg]

\* a completed interaction; text is what was typed, if anything
Done(s, text) == [op |-> s.op, target |-> s.target, text |-> text]

Init ==
    /\ argv \in [path : BOOLEAN, env : BOOLEAN, username : FlagUsernames,
                 password : FlagPasswords, output : Outputs]
    /\ dotenv \in [error : BOOLEAN, EW_USERNAME : EnvUsernames,
                   EW_PASSWORD : EnvPasswords]
    \* without --env the dotenv file is never looked at: one value stands for all
    /\ argv.env \/ dotenv = [error |-> TRUE, EW_USERNAME |-> "", EW_PASSWORD |-> ""]
    \* a file that cannot be loaded sets no variable
    /\ dotenv.error => dotenv.EW_USERNAME = "" /\ dotenv.EW_PASSWORD = ""
    /\ pc = "main"
    /\ ip = 1
    /\ waiting = FALSE
    /\ username = ""
    /\ password = ""
    /\ prompts = [username |-> 0, password |-> 0]
    /\ rbzPath = << >>
    /\ archive = "none"
    /\ browser = "none"
    /\ closes = 0
    /\ pageTimeout = "default"
    /\ downloadUrl = << >>
    /\ outputPath = << >>
    /\ fetched = "none"
    /\ written = << >>
    /\ log = << >>
    /\ steps = << >>
    /\ state = "Idle"
    /\ visited = <<"Idle">>
    /\ exitCode = 0
    /\ exitBy = "running"
    /\ chooser = << >>
    /\ fetchUrl = << >>

----------------------------------------------------------------------------
(* Ways a step of main() ends.                                             *)

\* process.exit(code): the process ends at once, whatever is still open
Exit(code, by) ==
    /\ pc' = "exited"
    /\ exitCode' = code
    /\ exitBy' = by

\* an awaited call rejects and nothing catches it: main()'s promise rejects
Reject ==
    /\ pc' = "rejected"
    /\ state' = "Failed"

\* the history of the run's states: a state is recorded when it is entered
Record == visited' = IF state' = state THEN visited ELSE Append(visited, state')

\* the state of the run once step s has completed
Enter(s) == IF s.enters = "" THEN state ELSE s.enters

\* the step sign() is at
Cur == Script[ip]

\* sign() is at a step with operation op, not inside search()
At(op) == pc = "sign" /\ ~waiting /\ Cur.op = op

----------------------------------------------------------------------------
(* main(), getCredentials() and zip().                                     *)

\* Main as it would be if it packaged before it resolved the credentials
MainZipFirst ==
    /\ pc = "main"
    /\ pc' = "zip"
    /\ UNCHANGED << argv, dotenv, ip, waiting, username, password, prompts,
                    rbzPath, archive, browser, closes, pageTimeout, downloadUrl,
                    outputPath, fetched, written, log, steps, state, exitCode,
                    exitBy >>
    /\ UNCHANGED << chooser, fetchUrl >>
    /\ Record

\* main, up to its first await: the output directory is created
Main ==
    /\ pc = "main"
    /\ pc' = "getCredentials"
    /\ UNCHANGED << argv, dotenv, ip, waiting, username, password, prompts,
                    rbzPath, archive, browser, closes, pageTimeout, downloadUrl,
                    outputPath, fetched, written, log, steps, state, exitCode,
                    exitBy >>
    /\ UNCHANGED << chooser, fetchUrl >>
    /\ Record

\* GetCredentials as it would be if a variable the dotenv file lacks were
\* left to the prompts
GetCredentialsEnvFallsThrough ==
    /\ pc = "getCredentials"
    /\ IF argv.env /\ dotenv.error
       THEN /\ log' = Append(log, Line("error", "Specified --env option but cannot load .env", <<"dotenv error">>))
            /\ Exit(1, "EnvUnusable")
            /\ UNCHANGED << username, password >>
       ELSE /\ username' = IF argv.env THEN dotenv.EW_USERNAME ELSE argv.username
            /\ password' = IF argv.env THEN dotenv.EW_PASSWORD ELSE argv.password
            /\ pc' = "promptUsername"
            /\ UNCHANGED << log, exitCode, exitBy >>
    /\ UNCHANGED << argv, dotenv, ip, waiting, prompts, rbzPath, archive, browser,
                    closes, pageTimeout, downloadUrl, outputPath, fetched,
                    written, steps, state >>
    /\ UNCHANGED << chooser, fetchUrl >>
    /\ Record

\* GetCredentials as it would be if a flag won over the dotenv file's value
GetCredentialsFlagsFirst ==
    /\ pc = "getCredentials"
    /\ IF argv.env /\ (dotenv.error \/ dotenv.EW_USERNAME = "" \/ dotenv.EW_PASSWORD = "")
       THEN /\ log' = Append(log, Line("error", "Specified --env option but cannot use .env", << >>))
            /\ Exit(1, "EnvUnusable")
            /\ UNCHANGED << username, password >>
       ELSE /\ username' = IF argv.username # "" \/ ~argv.env
                           THEN argv.username ELSE dotenv.EW_USERNAME
            /\ password' = IF argv.password # "" \/ ~argv.env
                           THEN argv.password ELSE dotenv.EW_PASSWORD
            /\ pc' = "promptUsername"
            /\ UNCHANGED << log, exitCode, exitBy >>
    /\ UNCHANGED << argv, dotenv, ip, waiting, prompts, rbzPath, archive, browser,
                    closes, pageTimeout, downloadUrl, outputPath, fetched,
                    written, steps, state >>
    /\ UNCHANGED << chooser, fetchUrl >>
    /\ Record

\* getCredentials, up to the prompts: the flags, then the dotenv file
GetCredentials ==
    /\ pc = "getCredentials"
    /\ IF argv.env
       THEN IF dotenv.error
            THEN /\ log' = Append(log, Line("error", "Specified --env option but cannot load .env", <<"dotenv error">>))
                 /\ Exit(1, "EnvUnusable")
                 /\ UNCHANGED << username, password >>
            ELSE IF dotenv.EW_USERNAME = ""
            THEN /\ log' = Append(log, Line("error", "Specified --env option but the EW_USERNAME variable is missing", << >>))
                 /\ Exit(1, "EnvUnusable")
                 /\ UNCHANGED << username, password >>
            ELSE IF dotenv.EW_PASSWORD = ""
            THEN /\ log' = Append(log, Line("error", "Specified --env option but the EW_PASSWORD variable is missing", << >>))
                 /\ Exit(1, "EnvUnusable")
                 /\ UNCHANGED << username, password >>
            ELSE /\ username' = dotenv.EW_USERNAME
                 /\ password' = dotenv.EW_PASSWORD
                 /\ pc' = "promptUsername"
                 /\ UNCHANGED << log, exitCode, exitBy >>
       ELSE /\ username' = argv.username
            /\ password' = argv.password
            /\ pc' = "promptUsername"
            /\ UNCHANGED << log, exitCode, exitBy >>
    /\ UNCHANGED << argv, dotenv, ip, waiting, prompts, rbzPath, archive, browser,
                    closes, pageTimeout, downloadUrl, outputPath, fetched,
                    written, steps, state >>
    /\ UNCHANGED << chooser, fetchUrl >>
    /\ Record

\* getCredentials: the username is prompted for when it is missing
PromptUsername ==
    /\ pc = "promptUsername"
    /\ IF username = ""
       THEN /\ \E answer \in PromptUsernames : username' = answer
            /\ prompts' = [prompts EXCEPT !.username = @ + 1]
       ELSE UNCHANGED << username, prompts >>
    /\ pc' = "promptPassword"
    /\ UNCHANGED << argv, dotenv, ip, waiting, password, rbzPath, archive,
                    browser, closes, pageTimeout, downloadUrl, outputPath,
                    fetched, written, log, steps, state, exitCode, exitBy >>
    /\ UNCHANGED << chooser, fetchUrl >>
    /\ Record

\* getCredentials: the password is prompted for when it is missing
PromptPassword ==
    /\ pc = "promptPassword"
    /\ IF password = ""
       THEN /\ \E answer \in PromptPasswords : password' = answer
            /\ prompts' = [prompts EXCEPT !.password = @ + 1]
       ELSE UNCHANGED << password, prompts >>
    /\ pc' = "zip"
    /\ UNCHANGED << argv, dotenv, ip, waiting, username, rbzPath, archive,
                    browser, closes, pageTimeout, downloadUrl, outputPath,
                    fetched, written, log, steps, state, exitCode, exitBy >>
    /\ UNCHANGED << chooser, fetchUrl >>
    /\ Record

\* the archive's path, from --output
RbzPathOf(output) == join(dirname(output), parseName(output)) \o NotSignedRbz

\* Zip as it would be without the check of the source path
ZipUnchecked ==
    /\ pc = "zip"
    /\ IF ~argv.output.defined
       THEN /\ Reject
            /\ UNCHANGED << rbzPath, archive, log, exitCode, exitBy >>
       ELSE /\ rbzPath' = RbzPathOf(argv.output.str)
            /\ archive' = "writing"
            /\ log' = Append(log, Line("info", "The extension has been archived in", rbzPath'))
            /\ pc' = "sign"
            /\ UNCHANGED << state, exitCode, exitBy >>
    /\ UNCHANGED << argv, dotenv, ip, waiting, username, password, prompts,
                    browser, closes, pageTimeout, downloadUrl, outputPath,
                    fetched, written, steps >>
    /\ UNCHANGED << chooser, fetchUrl >>
    /\ Record

\* zip: the source path is checked, the archive is started; path.dirname and
\* path.parse throw a TypeError when --output was not given
Zip ==
    /\ pc = "zip"
    /\ IF ~argv.path
       THEN /\ log' = Append(log, Line("error", "The target path is not a directory", <<"argv.path">>))
            /\ Exit(0, "InvalidInput")
            /\ UNCHANGED << rbzPath, archive, state >>
       ELSE IF ~argv.output.defined
       THEN /\ Reject
            /\ UNCHANGED << rbzPath, archive, log, exitCode, exitBy >>
       ELSE /\ rbzPath' = RbzPathOf(argv.output.str)
            /\ archive' = "writing"
            /\ log' = Append(log, Line("info", "The extension has been archived in", rbzPath'))
            /\ pc' = "sign"
            /\ UNCHANGED << state, exitCode, exitBy >>
    /\ UNCHANGED << argv, dotenv, ip, waiting, username, password, prompts,
                    browser, closes, pageTimeout, downloadUrl, outputPath,
                    fetched, written, steps >>
    /\ UNCHANGED << chooser, fetchUrl >>
    /\ Record

\* the archiver, on its own: the archive is finalized, its stream is closed
ArchiveClose ==
    /\ archive = "writing"
    /\ pc \notin {"exited"}
    /\ archive' = "closed"
    /\ UNCHANGED << argv, dotenv, pc, ip, waiting, username, password, prompts,
                    rbzPath, browser, closes, pageTimeout, downloadUrl,
                    outputPath, fetched, written, log, steps, state, exitCode,
                    exitBy >>
    /\ UNCHANGED << chooser, fetchUrl >>
    /\ Record

----------------------------------------------------------------------------
(* search() and sign().                                                    *)

\* what no step of sign() changes
fixed == << argv, dotenv, username, password, prompts, rbzPath >>

\* SearchCall as it would be if search waited without naming its target first
SearchCallSilent ==
    /\ At("search")
    /\ waiting' = TRUE
    /\ UNCHANGED << fixed, pc, ip, archive, browser, closes, pageTimeout,
                    downloadUrl, outputPath, fetched, written, log, steps, state,
                    exitCode, exitBy >>
    /\ UNCHANGED << chooser, fetchUrl >>
    /\ Record

\* search, up to its await: the line that names the target, then the wait
SearchCall ==
    /\ At("search")
    /\ log' = Append(log, Line("log", "Searching", <<Cur.target>>))
    /\ waiting' = TRUE
    /\ UNCHANGED << fixed, pc, ip, archive, browser, closes, pageTimeout,
                    downloadUrl, outputPath, fetched, written, steps, state,
                    exitCode, exitBy >>
    /\ UNCHANGED << chooser, fetchUrl >>
    /\ Record

\* search: the element became visible, its handle is returned
SearchFound ==
    /\ pc = "sign"
    /\ waiting
    /\ waiting' = FALSE
    /\ ip' = ip + 1
    /\ state' = Enter(Cur)
    /\ UNCHANGED << fixed, pc, archive, browser, closes, pageTimeout,
                    downloadUrl, outputPath, fetched, written, log, steps,
                    exitCode, exitBy >>
    /\ UNCHANGED << chooser, fetchUrl >>
    /\ Record

\* SearchTimeout as it would be if the catch block started the portal steps
\* over instead of ending the process
SearchTimeoutRestart ==
    /\ pc = "sign"
    /\ waiting
    /\ log' = Append(log, Line("error", "cannot find", <<Cur.target, "TimeoutError">>))
    /\ waiting' = FALSE
    /\ ip' = 3
    /\ state' = "Idle"
    /\ UNCHANGED << fixed, pc, archive, browser, closes, pageTimeout,
                    downloadUrl, outputPath, fetched, written, steps, exitCode,
                    exitBy >>
    /\ UNCHANGED << chooser, fetchUrl >>
    /\ Record

\* SearchTimeout as it would be if the catch block searched again
SearchTimeoutRetry ==
    /\ pc = "sign"
    /\ waiting
    /\ log' = Append(log, Line("error", "cannot find", <<Cur.target, "TimeoutError">>))
    /\ waiting' = FALSE
    /\ exitBy' = "LocatorTimeout"
    /\ UNCHANGED << fixed, pc, ip, archive, browser, closes, pageTimeout,
                    downloadUrl, outputPath, fetched, written, steps, state,
                    exitCode >>
    /\ UNCHANGED << chooser, fetchUrl >>
    /\ Record

\* search: page.waitFor threw; the catch block reports and ends the process
SearchTimeout ==
    /\ pc = "sign"
    /\ waiting
    /\ log' = Append(log, Line("error", "cannot find", <<Cur.target, "TimeoutError">>))
    /\ Exit(1, "LocatorTimeout")
    /\ state' = "Failed"
    /\ UNCHANGED << fixed, ip, waiting, archive, browser, closes, pageTimeout,
                    downloadUrl, outputPath, fetched, written, steps >>
    /\ UNCHANGED << chooser, fetchUrl >>
    /\ Record

\* sign, up to puppeteer.launch and its outcome
Launch ==
    /\ At("launch")
    /\ log' = Append(log, Line("info", "Starting the signing process...", << >>))
    /\ \/ /\ browser' = "open"
          /\ ip' = ip + 1
          /\ UNCHANGED << pc, state >>
       \/ /\ Reject
          /\ UNCHANGED << browser, ip >>
    /\ UNCHANGED << fixed, waiting, archive, closes, pageTimeout, downloadUrl,
                    outputPath, fetched, written, steps, exitCode, exitBy >>
    /\ UNCHANGED << chooser, fetchUrl >>
    /\ Record

\* browser.newPage()
NewPage ==
    /\ At("newPage")
    /\ ip' = ip + 1
    /\ steps' = Append(steps, Done(Cur, ""))
    /\ state' = Enter(Cur)
    /\ UNCHANGED << fixed, pc, waiting, archive, browser, closes, pageTimeout,
                    downloadUrl, outputPath, fetched, written, log, exitCode,
                    exitBy >>
    /\ UNCHANGED << chooser, fetchUrl >>
    /\ Record

\* page.goto(..., networkidle0), then page.setDefaultTimeout(argv.timeout);
\* the text records the timeout the navigation waited under
Goto ==
    /\ At("goto")
    /\ ip' = ip + 1
    /\ steps' = Append(steps, Done(Cur, pageTimeout))
    /\ pageTimeout' = "configured"
    /\ state' = Enter(Cur)
    /\ UNCHANGED << fixed, pc, waiting, archive, browser, closes, downloadUrl,
                    outputPath, fetched, written, log, exitCode, exitBy >>
    /\ UNCHANGED << chooser, fetchUrl >>
    /\ Record

\* a click on the handle search returned, or page.click on a selector
Click ==
    /\ At("click") \/ At("pageClick")
    /\ ip' = ip + 1
    /\ steps' = Append(steps, Done(Cur, ""))
    /\ state' = Enter(Cur)
    /\ UNCHANGED << fixed, pc, waiting, archive, browser, closes, pageTimeout,
                    downloadUrl, outputPath, fetched, written, log, exitCode,
                    exitBy >>
    /\ UNCHANGED << chooser, fetchUrl >>
    /\ Record

\* what sign types into the input it has just found
TextFor(target) == IF target = "e-mail input" THEN username ELSE password

\* Type as it would be if it reported what it types
TypeLogged ==
    /\ At("type")
    /\ ip' = ip + 1
    /\ steps' = Append(steps, Done(Cur, TextFor(Cur.target)))
    /\ log' = Append(log, Line("log", "Typing", <<Cur.target, TextFor(Cur.target)>>))
    /\ state' = Enter(Cur)
    /\ UNCHANGED << fixed, pc, waiting, archive, browser, closes, pageTimeout,
                    downloadUrl, outputPath, fetched, written, exitCode,
                    exitBy >>
    /\ UNCHANGED << chooser, fetchUrl >>
    /\ Record

\* emailIntput.type(username), passwordInput.type(password)
Type ==
    /\ At("type")
    /\ ip' = ip + 1
    /\ steps' = Append(steps, Done(Cur, TextFor(Cur.target)))
    /\ state' = Enter(Cur)
    /\ UNCHANGED << fixed, pc, waiting, archive, browser, closes, pageTimeout,
                    downloadUrl, outputPath, fetched, written, log, exitCode,
                    exitBy >>
    /\ UNCHANGED << chooser, fetchUrl >>
    /\ Record

\* page.waitFor(10000): the fixed delay
Delay ==
    /\ At("delay")
    /\ ip' = ip + 1
    /\ steps' = Append(steps, Done(Cur, ""))
    /\ state' = Enter(Cur)
    /\ UNCHANGED << fixed, pc, waiting, archive, browser, closes, pageTimeout,
                    downloadUrl, outputPath, fetched, written, log, exitCode,
                    exitBy >>
    /\ UNCHANGED << chooser, fetchUrl >>
    /\ Record

\* an event of the file chooser; arg is the path handed over, if any
ChooserEvent(ev, arg) == [ev |-> ev, arg |-> arg]

\* ChooserCall as it would be if the click were issued before the wait for
\* the chooser is set up
ChooserCallClickFirst ==
    /\ At("chooser")
    /\ chooser = << >>
    /\ chooser' = << ChooserEvent("click", << >>),
                     ChooserEvent("waitForFileChooser", << >>) >>
    /\ UNCHANGED << fixed, pc, ip, waiting, archive, browser, closes,
                    pageTimeout, downloadUrl, outputPath, fetched, written, log,
                    steps, state, exitCode, exitBy, fetchUrl >>
    /\ Record

\* Promise.all([page.waitForFileChooser(), browseButton.click()]), up to its
\* await: the elements of the array are evaluated in order, so the wait for
\* the chooser is set up, then the click is issued
ChooserCall ==
    /\ At("chooser")
    /\ chooser = << >>
    /\ chooser' = << ChooserEvent("waitForFileChooser", << >>),
                     ChooserEvent("click", << >>) >>
    /\ UNCHANGED << fixed, pc, ip, waiting, archive, browser, closes,
                    pageTimeout, downloadUrl, outputPath, fetched, written, log,
                    steps, state, exitCode, exitBy, fetchUrl >>
    /\ Record

\* Promise.all(...) resolves: the chooser the click brought up is returned
Chooser ==
    /\ At("chooser")
    /\ chooser # << >>
    /\ chooser' = Append(chooser, ChooserEvent("chooser", << >>))
    /\ ip' = ip + 1
    /\ steps' = Append(steps, Done(Cur, ""))
    /\ state' = Enter(Cur)
    /\ UNCHANGED << fixed, pc, waiting, archive, browser, closes, pageTimeout,
                    downloadUrl, outputPath, fetched, written, log, exitCode,
                    exitBy >>
    /\ UNCHANGED fetchUrl
    /\ Record

\* fileChooser.accept([rbzPath]); the text records whether the archive was
\* complete when its path was handed over
Accept ==
    /\ At("accept")
    /\ chooser' = Append(chooser, ChooserEvent("accept", rbzPath))
    /\ ip' = ip + 1
    /\ steps' = Append(steps, Done(Cur, archive))
    /\ state' = Enter(Cur)
    /\ UNCHANGED << fixed, pc, waiting, archive, browser, closes, pageTimeout,
                    downloadUrl, outputPath, fetched, written, log, exitCode,
                    exitBy >>
    /\ UNCHANGED fetchUrl
    /\ Record

\* the signed extension's path, from the archive's
OutputPathOf(rbz) ==
    join(dirname(rbz), basenameExt(rbz, NotSignedRbz) \o SignedRbz)

\* Evaluate as it would be if sign followed the link instead of reading it
EvaluateFollowsLink ==
    /\ At("evaluate")
    /\ \E url \in Urls : downloadUrl' = url
    /\ log' = Append(log, Line("log", "Downloading", downloadUrl'))
    /\ outputPath' = OutputPathOf(rbzPath)
    /\ ip' = ip + 1
    /\ steps' = Append(Append(steps, Done(Cur, "")),
                       [op |-> "goto", target |-> downloadUrl'[1], text |-> ""])
    /\ state' = Enter(Cur)
    /\ UNCHANGED << fixed, pc, waiting, archive, browser, closes, pageTimeout,
                    fetched, written, exitCode, exitBy >>
    /\ UNCHANGED << chooser, fetchUrl >>
    /\ Record

\* downloadButton.evaluate(a => a.href), then the line that names the url and
\* the output path
Evaluate ==
    /\ At("evaluate")
    /\ \E url \in Urls : downloadUrl' = url
    /\ log' = Append(log, Line("log", "Downloading", downloadUrl'))
    /\ outputPath' = OutputPathOf(rbzPath)
    /\ ip' = ip + 1
    /\ steps' = Append(steps, Done(Cur, ""))
    /\ state' = Enter(Cur)
    /\ UNCHANGED << fixed, pc, waiting, archive, browser, closes, pageTimeout,
                    fetched, written, exitCode, exitBy >>
    /\ UNCHANGED << chooser, fetchUrl >>
    /\ Record

\* a step of sign rejects: nothing in sign or main catches it
StepThrows ==
    /\ pc = "sign"
    /\ ~waiting
    /\ Cur.op \in ThrowingOps
    /\ Reject
    /\ UNCHANGED << fixed, ip, waiting, archive, browser, closes, pageTimeout,
                    downloadUrl, outputPath, fetched, written, log, steps,
                    exitCode, exitBy >>
    /\ UNCHANGED << chooser, fetchUrl >>
    /\ Record

\* the file download(url, dest, {filename}) writes
DownloadTarget(dest, filename) == join(dest, filename)

\* Download as it would be without the try block: a failed download rejects
DownloadUncaught ==
    /\ At("download")
    /\ fetchUrl' = downloadUrl
    /\ \/ /\ fetched' = "ok"
          /\ written' = DownloadTarget(dirname(outputPath), basename(outputPath))
          /\ steps' = Append(steps, Done(Cur, "ok"))
          /\ log' = Append(log, Line("info", "Downloaded to", outputPath))
          /\ ip' = ip + 1
          /\ state' = Enter(Cur)
          /\ pc' = pc
       \/ /\ fetched' = "failed"
          /\ Reject
          /\ UNCHANGED << written, steps, log, ip >>
    /\ UNCHANGED << fixed, waiting, archive, browser, closes, pageTimeout,
                    downloadUrl, outputPath, exitCode, exitBy >>
    /\ UNCHANGED chooser
    /\ Record

\* download(...) in its try block, the catch block, and the line after them
Download ==
    /\ At("download")
    /\ fetchUrl' = downloadUrl
    /\ \/ /\ fetched' = "ok"
          /\ written' = DownloadTarget(dirname(outputPath), basename(outputPath))
          /\ steps' = Append(steps, Done(Cur, "ok"))
          /\ log' = Append(log, Line("info", "Downloaded to", outputPath))
       \/ /\ fetched' = "failed"
          /\ written' = written
          /\ steps' = Append(steps, Done(Cur, "failed"))
          /\ log' = Append(Append(log, Line("error", "Download failed!", << >>)),
                           Line("info", "Downloaded to", outputPath))
    /\ ip' = ip + 1
    /\ state' = Enter(Cur)
    /\ UNCHANGED << fixed, pc, waiting, archive, browser, closes, pageTimeout,
                    downloadUrl, outputPath, exitCode, exitBy >>
    /\ UNCHANGED chooser
    /\ Record

\* browser.close(), and sign returns
Close ==
    /\ At("close")
    /\ browser' = "closed"
    /\ closes' = closes + 1
    /\ steps' = Append(steps, Done(Cur, ""))
    /\ pc' = "returned"
    /\ UNCHANGED << fixed, ip, waiting, archive, pageTimeout, downloadUrl,
                    outputPath, fetched, written, log, state, exitCode, exitBy >>
    /\ UNCHANGED << chooser, fetchUrl >>
    /\ Record

\* main has returned: Node ends the process with code 0 once nothing is
\* pending (the archive's stream is closed)
ProcessEnd ==
    /\ pc = "returned"
    /\ archive # "writing"
    /\ Exit(0, "Done")
    /\ UNCHANGED << fixed, ip, waiting, archive, browser, closes, pageTimeout,
                    downloadUrl, outputPath, fetched, written, log, steps, state >>
    /\ UNCHANGED << chooser, fetchUrl >>
    /\ Record

\* main() is called without a catch: what Node does with the rejection
\* depends on its version.  It either ends the process with code 1, or warns
\* and lets the process live on: with the browser still open the process
\* never ends, without one it ends with code 0.
UnhandledRejection ==
    /\ pc = "rejected"
    /\ \/ Exit(1, "UnhandledRejection")
       \/ /\ browser = "open"
          /\ pc' = "hung"
          /\ UNCHANGED << exitCode, exitBy >>
       \/ /\ browser # "open"
          /\ Exit(0, "UnhandledRejection")
    /\ UNCHANGED << fixed, ip, waiting, archive, browser, closes, pageTimeout,
                    downloadUrl, outputPath, fetched, written, log, steps, state >>
    /\ UNCHANGED << chooser, fetchUrl >>
    /\ Record

----------------------------------------------------------------------------
Next ==
    \/ Main
    \/ GetCredentials
    \/ PromptUsername
    \/ PromptPassword
    \/ Zip
    \/ ArchiveClose
    \/ SearchCall
    \/ SearchFound
    \/ SearchTimeout
    \/ Launch
    \/ NewPage
    \/ Goto
    \/ Click
    \/ Type
    \/ Delay
    \/ ChooserCall
    \/ Chooser
    \/ Accept
    \/ Evaluate
    \/ StepThrows
    \/ Download
    \/ Close
    \/ ProcessEnd
    \/ UnhandledRejection


Spec == Init /\ [][Next]_vars

----------------------------------------------------------------------------
(* Properties.                                                             *)

\* the process has ended, or will never end
Ended == pc \in {"exited", "hung"}

\* the console lines with the given text
LinesWith(text) == {i \in DOMAIN log : log[i].text = text}

\* sign() was entered
SignStarted == LinesWith("Starting the signing process...") # {}

\* the dotenv file gives both credentials
EnvUsable == ~dotenv.error /\ dotenv.EW_USERNAME # "" /\ dotenv.EW_PASSWORD # ""

\* C1: every run that launched a browser session closes it exactly once
\* before the process ends, whether the run ends Complete or ends Failed by a
\* search that timed out, or another step that failed, in a state after Idle.
C1_TeardownExactlyOnce ==
    (/\ pc = "exited"
     /\ browser # "none"
     /\ state = "Complete" \/ (state = "Failed" /\ Len(visited) > 2)) =>
        (closes = 1 /\ browser = "closed")

\* the states of a submission run, in order
StateOrder ==
    << "Idle", "Authenticating", "Initiating", "Uploading",
       "AwaitingProcessing", "Downloading", "Complete" >>

\* the states visited before the run failed, if it did
VisitedCore ==
    IF visited[Len(visited)] = "Failed"
    THEN SubSeq(visited, 1, Len(visited) - 1)
    ELSE visited

\* the source directory is valid and the credentials can be resolved
ValidInputs == argv.path /\ (argv.env => EnvUsable)

\* C2: the run is in one state at a time; the states it has visited are the
\* first ones of Idle, Authenticating, Initiating, Uploading,
\* AwaitingProcessing, Downloading, Complete, in that order, each once,
\* followed at most by Failed, which is entered from a non-terminal state
\* only; a run with valid inputs ends in Complete or in Failed.
C2_StatesInOrder ==
    /\ state = visited[Len(visited)]
    /\ Len(VisitedCore) >= 1
    /\ Len(VisitedCore) <= Len(StateOrder)
    /\ VisitedCore = SubSeq(StateOrder, 1, Len(VisitedCore))
    /\ state = "Failed" => VisitedCore[Len(VisitedCore)] # "Complete"
    /\ (ValidInputs /\ Ended) => state \in {"Complete", "Failed"}

\* a run with valid inputs has gone through every state and has ended
C2_Witness ==
    /\ ValidInputs
    /\ pc = "exited"
    /\ visited = StateOrder

\* getCredentials has returned
Resolved ==
    /\ pc \notin {"main", "getCredentials", "promptUsername", "promptPassword"}
    /\ exitBy # "EnvUnusable"

\* the dotenv file supplies the username, the password
EnvHasUsername == argv.env /\ ~dotenv.error /\ dotenv.EW_USERNAME # ""
EnvHasPassword == argv.env /\ ~dotenv.error /\ dotenv.EW_PASSWORD # ""

\* C3 as stated: a flag's value overrides the dotenv file's, the dotenv
\* file's value overrides prompting, and a field is prompted for exactly once
\* when neither supplied it, and not at all otherwise.
C3_FlagsOverrideEnvFile ==
    Resolved =>
        /\ username = IF argv.username # "" THEN argv.username
                      ELSE IF EnvHasUsername THEN dotenv.EW_USERNAME
                      ELSE username
        /\ password = IF argv.password # "" THEN argv.password
                      ELSE IF EnvHasPassword THEN dotenv.EW_PASSWORD
                      ELSE password
        /\ prompts.username = IF argv.username = "" /\ ~EnvHasUsername THEN 1 ELSE 0
        /\ prompts.password = IF argv.password = "" /\ ~EnvHasPassword THEN 1 ELSE 0

\* C3, amended: with --env the dotenv file's values are the credentials,
\* whatever the flags say, and nothing is prompted for (the process ends with
\* code 1, without a prompt, when the file gives not both); without --env a
\* flag's value is the credential and a field is prompted for exactly once
\* when its flag is missing, and not at all otherwise.
C3_EnvFileOverridesFlags ==
    /\ Resolved =>
        /\ username = IF argv.env THEN dotenv.EW_USERNAME
                      ELSE IF argv.username # "" THEN argv.username
                      ELSE username
        /\ password = IF argv.env THEN dotenv.EW_PASSWORD
                      ELSE IF argv.password # "" THEN argv.password
                      ELSE password
        /\ username \in Secrets /\ password \in Secrets
        /\ argv.username = "" /\ ~argv.env => username \in PromptUsernames
        /\ argv.password = "" /\ ~argv.env => password \in PromptPasswords
        /\ prompts.username = IF argv.username = "" /\ ~argv.env THEN 1 ELSE 0
        /\ prompts.password = IF argv.password = "" /\ ~argv.env THEN 1 ELSE 0
        /\ argv.env => EnvUsable
    /\ exitBy = "EnvUnusable" =>
        /\ argv.env /\ ~EnvUsable
        /\ prompts.username = 0 /\ prompts.password = 0
        /\ exitCode = 1

\* both a flag and the dotenv file supply the username, and the credentials
\* are resolved
C3_Witness ==
    /\ Resolved
    /\ argv.env
    /\ argv.username # ""
    /\ username = dotenv.EW_USERNAME

\* C4: a download that fails does not abort the run: the failure is
\* reported, the run is Complete, the only step left is the session's close,
\* and the process ends with the session closed once and with code 0.
C4_FetchFailedCompletes ==
    fetched = "failed" =>
        /\ LinesWith("Download failed!") # {}
        /\ state = "Complete"
        /\ pc \in {"sign", "returned", "exited"}
        /\ pc = "sign" => Cur.op = "close"
        /\ pc \in {"returned", "exited"} => browser = "closed" /\ closes = 1
        /\ pc = "exited" => exitCode = 0 /\ exitBy = "Done"

\* the download failed and the process has ended
C4_Witness ==
    /\ fetched = "failed"
    /\ pc = "exited"

\* the interactions that come before step i of sign(), as sign does them
RECURSIVE OpsBefore(_)
OpsBefore(i) ==
    IF i <= 1 THEN << >>
    ELSE LET s == Script[i - 1]
         IN  IF s.op \in {"launch", "search"}
             THEN OpsBefore(i - 1)
             ELSE Append(OpsBefore(i - 1), <<s.op, s.target>>)

\* the operation and target of each interaction done
StepsDone == [i \in DOMAIN steps |-> <<steps[i].op, steps[i].target>>]

\* C5: once a search has timed out the process has ended with code 1: the
\* element was searched for once, the failure is the last line reported, and
\* the interactions done are those that come before the failed search.
C5_TimeoutAbortsNoRetry ==
    exitBy = "LocatorTimeout" =>
        /\ pc = "exited"
        /\ exitCode = 1
        /\ Cur.op = "search"
        /\ log[Len(log)] = Line("error", "cannot find", <<Cur.target, "TimeoutError">>)
        /\ Cardinality(LinesWith("cannot find")) = 1
        /\ Cardinality({i \in LinesWith("Searching") : log[i].arg = <<Cur.target>>}) = 1
        /\ StepsDone = OpsBefore(ip)
        /\ fetched = "none"

\* a search that follows some interactions has timed out
C5_Witness ==
    /\ exitBy = "LocatorTimeout"
    /\ Cur.target = "next button 2"

\* C6: the signed extension's name is the archive's with "_not_signed.rbz"
\* replaced by "_signed.rbz", in the archive's directory, and with --output
\* the signed extension is written to exactly the path given.
C6_OutputPath ==
    /\ outputPath # << >> =>
        \E n \in 1..Len(rbzPath) :
            /\ rbzPath = SubSeq(rbzPath, 1, n) \o NotSignedRbz
            /\ outputPath = SubSeq(rbzPath, 1, n) \o SignedRbz
    /\ (fetched = "ok" /\ argv.output.defined) => written = argv.output.str

\* C7: a run with a valid source directory, --username and --password and no
\* other option never prompts and gets into sign(): it does not end before
\* the browser session is asked for.
C7_FlagsOnlyRunStartsSigning ==
    (/\ argv.path
     /\ argv.username # ""
     /\ argv.password # ""
     /\ ~argv.env
     /\ ~argv.output.defined) =>
        /\ prompts.username = 0
        /\ prompts.password = 0
        /\ pc \in {"rejected", "exited", "hung"} => SignStarted

\* the source path is no directory, or --env is given and the dotenv file
\* gives not both credentials
PreCoreError == ~argv.path \/ (argv.env /\ ~EnvUsable)

\* C8: with an invalid source path, or with --env and an unusable dotenv
\* file, no browser session is launched and no portal step is done.
C8_PreCoreErrorsNeverLaunch ==
    PreCoreError =>
        /\ browser = "none"
        /\ steps = << >>
        /\ ~SignStarted
        /\ pc # "sign"
        /\ state = "Idle"

\* the process has ended in zip because the source path is no directory
C8_Witness ==
    /\ pc = "exited"
    /\ exitBy = "InvalidInput"
    /\ ~argv.env

\* C9: the exit code is 0 when the run succeeds and 1 for an invalid source
\* path, for an unusable dotenv file and for a search that timed out.
C9_ExitCodes ==
    pc = "exited" =>
        /\ exitBy = "Done" => exitCode = 0
        /\ exitBy \in {"InvalidInput", "EnvUnusable", "LocatorTimeout"} => exitCode = 1

\* the lines step i of sign() reports when it completes
LinesOfStep(i) ==
    LET s == Script[i]
    IN  IF s.op = "launch" THEN <<Line("info", "Starting the signing process...", << >>)>>
        ELSE IF s.op = "search" THEN <<Line("log", "Searching", <<s.target>>)>>
        ELSE IF s.op = "evaluate" THEN <<Line("log", "Downloading", downloadUrl)>>
        ELSE IF s.op = "download"
        THEN (IF fetched = "failed"
              THEN <<Line("error", "Download failed!", << >>)>> ELSE << >>)
             \o <<Line("info", "Downloaded to", outputPath)>>
        ELSE << >>

RECURSIVE LinesOfSteps(_)
\* the lines steps 1..n of sign() report
LinesOfSteps(n) == IF n = 0 THEN << >> ELSE LinesOfSteps(n - 1) \o LinesOfStep(n)

\* the console lines of the run so far, told from where the run is, from the
\* paths and the url, and from whether the source path and the dotenv file
\* are usable: no credential is read
PublicLog ==
    LET envLines ==
            IF exitBy # "EnvUnusable" THEN << >>
            ELSE IF dotenv.error
            THEN <<Line("error", "Specified --env option but cannot load .env", <<"dotenv error">>)>>
            ELSE IF dotenv.EW_USERNAME = ""
            THEN <<Line("error", "Specified --env option but the EW_USERNAME variable is missing", << >>)>>
            ELSE <<Line("error", "Specified --env option but the EW_PASSWORD variable is missing", << >>)>>
        zipLines ==
            IF exitBy = "InvalidInput"
            THEN <<Line("error", "The target path is not a directory", <<"argv.path">>)>>
            ELSE IF rbzPath # << >>
            THEN <<Line("info", "The extension has been archived in", rbzPath)>>
            ELSE << >>
        inSign == rbzPath # << >>
        done == IF pc \in {"returned"} \/ exitBy = "Done" THEN ip ELSE ip - 1
        partial ==
            IF ~inSign THEN << >>
            ELSE IF exitBy = "LocatorTimeout"
            THEN <<Line("log", "Searching", <<Cur.target>>),
                   Line("error", "cannot find", <<Cur.target, "TimeoutError">>)>>
            ELSE IF waiting THEN <<Line("log", "Searching", <<Cur.target>>)>>
            ELSE IF ip = 1 /\ pc # "sign"
            THEN <<Line("info", "Starting the signing process...", << >>)>>
            ELSE << >>
    IN  envLines \o zipLines
            \o (IF inSign THEN LinesOfSteps(done) ELSE << >>) \o partial

\* C10: the console lines do not depend on the credentials: on every path of
\* the run they are the lines told without reading any credential, and none
\* of them holds a credential.
C10_CredentialsNeverLogged ==
    /\ log = PublicLog
    /\ \A i \in DOMAIN log :
        /\ log[i].text \notin Secrets
        /\ \A j \in DOMAIN log[i].arg : log[i].arg[j] \notin Secrets

\* both credentials were typed into the portal and lines were reported
C10_Witness ==
    /\ \E i \in DOMAIN steps : steps[i].op = "type" /\ steps[i].text = username
    /\ \E i \in DOMAIN steps : steps[i].op = "type" /\ steps[i].text = password
    /\ username \in Secrets
    /\ password \in Secrets
    /\ LinesWith("cannot find") # {}

\* the steps of sign() that wait for the page under the page's timeout
WaitingOps == {"goto", "search", "chooser"}

\* C11: the configured timeout bounds every wait of the run: it is in force
\* on the page before the first wait begins, the initial navigation
\* included (so that, each wait succeeding or timing out, the run ends
\* Complete or Failed).  Stated here: no wait is pending, and no navigation
\* was done, under another timeout than the configured one.
C11_TimeoutInForceBeforeFirstWait ==
    /\ (pc = "sign" /\ Cur.op \in WaitingOps) => pageTimeout = "configured"
    /\ \A i \in DOMAIN steps : steps[i].op = "goto" => steps[i].text = "configured"

\* getCredentials has been left, by return or by process.exit
CredentialsLeft == pc \notin {"main", "getCredentials"}

\* C12: with --env nothing is ever prompted for: either the dotenv file gives
\* both EW_USERNAME and EW_PASSWORD and they are the credentials returned, or
\* the process ends with code 1 before any prompt.
C12_EnvNeverPrompts ==
    argv.env =>
        /\ prompts.username = 0
        /\ prompts.password = 0
        /\ CredentialsLeft =>
            IF EnvUsable
            THEN /\ exitBy # "EnvUnusable"
                 /\ username = dotenv.EW_USERNAME
                 /\ password = dotenv.EW_PASSWORD
            ELSE /\ pc = "exited"
                 /\ exitBy = "EnvUnusable"
                 /\ exitCode = 1

\* --env is given, the dotenv file lacks the password only, and the process
\* has ended
C12_Witness ==
    /\ argv.env
    /\ ~dotenv.error
    /\ dotenv.EW_USERNAME # ""
    /\ dotenv.EW_PASSWORD = ""
    /\ pc = "exited"

\* C13: the archive is completely written (finalized, its stream closed)
\* when its path is handed to the file chooser, in every interleaving of the
\* archiver with the steps of sign().
C13_ArchiveCompleteBeforeUpload ==
    \A i \in DOMAIN steps : steps[i].op = "accept" => steps[i].text = "closed"

\* the interactions of a run in the order claimed, between the opening of
\* the page and the closing of the session
ClaimedOrder ==
    << <<"goto", "https://extensions.sketchup.com/extension/sign">>,
       <<"click", "sign in button">>,
       <<"type", "e-mail input">>,
       <<"pageClick", "input[id=next]">>,
       <<"type", "password input">>,
       <<"pageClick", "input[id=submit]">>,
       <<"click", "sign button">>,
       <<"delay", "10000">>,
       <<"chooser", "browse button">>,
       <<"accept", "file chooser">>,
       <<"click", "next button 1">>,
       <<"click", "next button 2">>,
       <<"evaluate", "download link">>,
       <<"download", "download link">> >>

FullOrder == << <<"newPage", "page">> >> \o ClaimedOrder \o << <<"close", "browser">> >>

\* C14: the steps of a run are done one after the other in this order:
\* navigate, sign-in click, identity fill, continue click, secret fill,
\* submit click, begin-submission click, settle delay, file-chooser open and
\* archive selection, first-modal confirm, second-modal confirm, result-link
\* read, fetch; what has been done is always the first steps of that order,
\* so the first modal is confirmed before the second.
C14_StepsInOrder ==
    /\ Len(StepsDone) <= Len(FullOrder)
    /\ StepsDone = SubSeq(FullOrder, 1, Len(StepsDone))

\* every step has been done and the process has ended
C14_Witness ==
    /\ Len(steps) = Len(FullOrder)
    /\ pc = "exited"

\* the events of the file chooser so far, by name
ChooserEvs == [i \in DOMAIN chooser |-> chooser[i].ev]

\* C15: the settle delay has completed before the file chooser is triggered;
\* the wait for the chooser is set up no later than the click that triggers
\* it is issued; the archive path is supplied to the chooser obtained from
\* that click, and to nothing else.
C15_ChooserArmedBeforeClick ==
    /\ Len(chooser) <= 4
    /\ ChooserEvs = SubSeq(<<"waitForFileChooser", "click", "chooser", "accept">>,
                           1, Len(chooser))
    /\ chooser # << >> =>
        \E i \in DOMAIN steps : StepsDone[i] = <<"delay", "10000">>
    /\ \A i \in DOMAIN chooser :
        chooser[i].arg = IF chooser[i].ev = "accept" THEN rbzPath ELSE << >>
    /\ (\E i \in DOMAIN steps : steps[i].op = "accept") <=> Len(chooser) = 4

\* the archive path has been handed to the chooser
C15_Witness ==
    /\ Len(chooser) = 4
    /\ chooser[4].arg = rbzPath
    /\ rbzPath # << >>

\* the last "Searching" line reported
LastSearching ==
    CHOOSE i \in LinesWith("Searching") : \A j \in LinesWith("Searching") : j <= i

\* C16: search names its target on the console before it waits for it, so
\* while a wait is pending the last line names the target waited for, and
\* when a search has timed out the last "Searching" line names the step that
\* failed and the failure line, which follows it, carries the same label.
C16_SearchingLineBeforeWait ==
    /\ (pc = "sign" /\ waiting) =>
        /\ Cur.op = "search"
        /\ log # << >>
        /\ log[Len(log)] = Line("log", "Searching", <<Cur.target>>)
    /\ exitBy = "LocatorTimeout" =>
        /\ LinesWith("Searching") # {}
        /\ log[LastSearching].arg = <<Cur.target>>
        /\ LastSearching = Len(log) - 1
        /\ log[Len(log)].text = "cannot find"
        /\ log[Len(log)].arg[1] = Cur.target

\* the search for the download link has timed out
C16_Witness ==
    /\ exitBy = "LocatorTimeout"
    /\ Cur.target = "download link"
    /\ log[Len(log)].arg[1] = "download link"

\* the steps that read the link's target
Evaluations == {i \in DOMAIN steps : steps[i].op = "evaluate"}

\* C17: the download reference is undefined before Downloading; it is set
\* once, from the target of the link found, after the second modal has been
\* confirmed (the one "Downloading" line names it); the session navigates to
\* the portal only, never to the reference; the fetch is done with that
\* reference and no other.
C17_DownloadReference ==
    /\ (\A i \in DOMAIN visited : visited[i] # "Downloading") => downloadUrl = << >>
    /\ Cardinality(Evaluations) <= 1
    /\ downloadUrl # << >> <=> Evaluations # {}
    /\ downloadUrl # << >> =>
        /\ downloadUrl \in Urls
        /\ Cardinality(LinesWith("Downloading")) = 1
        /\ \A i \in LinesWith("Downloading") : log[i].arg = downloadUrl
    /\ \A i \in Evaluations :
        \E j \in 1..(i - 1) : StepsDone[j] = <<"click", "next button 2">>
    /\ \A i \in DOMAIN steps :
        steps[i].op = "goto" =>
            /\ steps[i].target = "https://extensions.sketchup.com/extension/sign"
            /\ <<steps[i].target>> # downloadUrl
    /\ fetchUrl = IF fetched = "none" THEN << >> ELSE downloadUrl
    /\ fetched # "none" => downloadUrl # << >>

\* the signed extension has been fetched from the reference read
C17_Witness ==
    /\ fetched = "ok"
    /\ fetchUrl = downloadUrl
    /\ downloadUrl \in Urls

\* C18: the "Downloaded to" line is reported only if the download succeeded:
\* a run whose download failed never reports it.
C18_DownloadedLineOnlyOnSuccess ==
    fetched = "failed" => LinesWith("Downloaded to") = {}

\* both credentials are resolved
HaveCredentials == username \in Secrets /\ password \in Secrets

\* a credential has been resolved or prompted for
TouchedCredentials ==
    \/ username # ""
    \/ password # ""
    \/ prompts.username > 0
    \/ prompts.password > 0

\* C19 as stated: the archive path is produced first, then the credentials
\* are resolved, then sign() starts; an invalid source path is detected
\* before any credential is resolved or prompted for.
C19_PackagerBeforeCredentials ==
    /\ TouchedCredentials => rbzPath # << >>
    /\ SignStarted => (rbzPath # << >> /\ HaveCredentials)
    /\ exitBy = "InvalidInput" => ~TouchedCredentials

\* C19, amended: the credentials are resolved first, then the source path is
\* checked and the archive path is produced, then sign() starts; an invalid
\* source path is detected after the credentials are resolved, and before
\* any browser session is launched.
C19_CredentialsBeforePackager ==
    /\ (pc = "zip" \/ rbzPath # << >> \/ exitBy = "InvalidInput") => HaveCredentials
    /\ (pc \in {"main", "getCredentials", "promptUsername", "promptPassword"}
            \/ exitBy = "EnvUnusable") =>
        (rbzPath = << >> /\ archive = "none" /\ ~SignStarted)
    /\ SignStarted => (rbzPath # << >> /\ HaveCredentials)
    /\ exitBy = "InvalidInput" => (~SignStarted /\ browser = "none")

\* both credentials were prompted for, then the source path was found to be
\* no directory
C19_Witness ==
    /\ exitBy = "InvalidInput"
    /\ prompts.username = 1
    /\ prompts.password = 1

====
